---- MODULE Spec2Model ----
(***************************************************************************)
(* Model of fastmail-proc: the batch processor (src/fastmailProc.js, the   *)
(* label-applying variant and the full-rewrite ledger variant) and the     *)
(* web host (fastmail-host.js) with its advisory lock.                     *)
(*                                                                         *)
(* Strings are sequences of character codes, so that toLowerCase, split,   *)
(* includes and the header regular expressions are computed and not        *)
(* assumed.  A file is the sequence of its lines, i.e. content.split('\n');*)
(* the empty sequence stands for a file that does not exist.               *)
(***************************************************************************)
EXTENDS Integers, Sequences, FiniteSets, TLC

\* ------------------------------------------------------------------ bounds
MaxMsgs == 2    \* messages returned by one Email/query
MaxTicks == 3   \* clock advances in one behaviour

\* ------------------------------------------------------- program constants
LOCK_TIMEOUT_MS == 300000
SAVE_SUBJECTS == TRUE
PROCESS_LABELS == FALSE

\* ------------------------------------------------------------------ strings
Marker == <<61, 61, 61, 61, 61, 61, 61>>      \* "======="
Sep == <<32, 124, 32>>                        \* " | "
Unknown == <<85, 110, 107, 110, 111, 119, 110>> \* "Unknown"

\* String.prototype.toLowerCase on ASCII
ToLower(s) == [i \in DOMAIN s |-> IF s[i] \in 65..90 THEN s[i] + 32 ELSE s[i]]

IsSpace(c) == c \in {9, 32}

\* String.prototype.includes
Includes(s, sub) ==
  \E i \in 1..(Len(s) - Len(sub) + 1) : SubSeq(s, i, i + Len(sub) - 1) = sub

\* s.split(sub)[0]: the text before the first occurrence of sub
SplitFirst(s, sub) ==
  IF Includes(s, sub)
    THEN LET i == CHOOSE k \in 1..(Len(s) - Len(sub) + 1) :
                    /\ SubSeq(s, k, k + Len(sub) - 1) = sub
                    /\ \A j \in 1..(k - 1) : SubSeq(s, j, j + Len(sub) - 1) # sub
         IN SubSeq(s, 1, i - 1)
    ELSE s

RECURSIVE TrimStart(_)
TrimStart(s) ==
  IF s # <<>> /\ IsSpace(Head(s)) THEN TrimStart(Tail(s)) ELSE s

RECURSIVE TrimEnd(_)
TrimEnd(s) ==
  IF s # <<>> /\ IsSpace(s[Len(s)]) THEN TrimEnd(SubSeq(s, 1, Len(s) - 1)) ELSE s

\* String.prototype.trim
Trim(s) == TrimEnd(TrimStart(s))

\* code-unit comparison of two strings (the default Array.prototype.sort order)
RECURSIVE StrLess(_, _)
StrLess(a, b) ==
  IF b = <<>> THEN FALSE
  ELSE IF a = <<>> THEN TRUE
  ELSE IF Head(a) # Head(b) THEN Head(a) < Head(b)
  ELSE StrLess(Tail(a), Tail(b))

\* a.toLowerCase().localeCompare(b.toLowerCase()) < 0, on ASCII letters
LowerLess(a, b) == StrLess(ToLower(a), ToLower(b))

\* Array.prototype.join
RECURSIVE Join(_, _)
Join(parts, sep) ==
  IF parts = <<>> THEN <<>>
  ELSE IF Len(parts) = 1 THEN parts[1]
  ELSE parts[1] \o sep \o Join(Tail(parts), sep)

\* line.match(/^=======.*=======$/)
IsHeader(line) ==
  /\ Len(line) >= 2 * Len(Marker)
  /\ SubSeq(line, 1, Len(Marker)) = Marker
  /\ SubSeq(line, Len(line) - Len(Marker) + 1, Len(line)) = Marker

\* a header parse that strips the markers and keeps the blanks around the label
HeaderLabelUntrimmed(line) ==
  SubSeq(line, Len(Marker) + 1, Len(line) - Len(Marker))

\* line.replace(/^=======\s*/, '').replace(/\s*=======\s*$/, '') on a header
HeaderLabel(line) ==
  LET afterFirst == TrimStart(SubSeq(line, Len(Marker) + 1, Len(line)))
  IN IF Len(afterFirst) < Len(Marker) THEN afterFirst
     ELSE TrimEnd(SubSeq(afterFirst, 1, Len(afterFirst) - Len(Marker)))

\* `======= ${label} =======`
HeaderLine(label) == Marker \o <<32>> \o label \o <<32>> \o Marker

\* line.split(' | ')[0]
LineFrom(line) == SplitFirst(line, Sep)

\* insertion of x into a sorted sequence, after every element not greater
RECURSIVE InsertLower(_, _)
InsertLower(sorted, x) ==
  IF sorted = <<>> THEN <<x>>
  ELSE IF LowerLess(x, sorted[Len(sorted)])
         THEN InsertLower(SubSeq(sorted, 1, Len(sorted) - 1), x) \o <<sorted[Len(sorted)]>>
         ELSE Append(sorted, x)

\* names.sort((a, b) => a.toLowerCase().localeCompare(b.toLowerCase())): stable
RECURSIVE SortLower(_)
SortLower(s) ==
  IF s = <<>> THEN <<>>
  ELSE InsertLower(SortLower(SubSeq(s, 1, Len(s) - 1)), s[Len(s)])

\* ------------------------------------------------------- rules and messages
\* An absent optional key of a rule is the empty sequence, a present one a
\* one-element sequence; an absent string (header, add-label, remove-label,
\* subject, name, email) is the empty string, which JavaScript also treats as
\* false.

\* message.from?.[0]?.name || message.from?.[0]?.email || 'Unknown'
FromName(message) ==
  IF message.from # <<>> /\ message.from[1].name # <<>> THEN message.from[1].name
  ELSE IF message.from # <<>> /\ message.from[1].email # <<>> THEN message.from[1].email
  ELSE Unknown

\* message.headers?.find(h => h.name.toLowerCase() === rule.header.toLowerCase())?.value || ''
HeaderValue(message, name) ==
  LET hits == {i \in DOMAIN message.headers :
                 ToLower(message.headers[i].name) = ToLower(name)}
  IN IF hits = {} THEN <<>>
     ELSE message.headers[CHOOSE i \in hits : \A j \in hits : i <= j].value

\* message.to?.map(t => t.email).join(' ') || ''
ToValue(message) == Join([i \in DOMAIN message.to |-> message.to[i].email], <<32>>)

\* message.bodyValues?.[partId]?.value; bodyValues maps part ids to texts
PartValue(message, partId) ==
  IF partId \in DOMAIN message.bodyValues THEN message.bodyValues[partId] ELSE <<>>

\* message.textBody?.[0]?.partId; textBody is the list of the part ids
FirstPartId(message) == IF message.textBody = <<>> THEN "" ELSE message.textBody[1]

\* bodyValues?.['body']?.value || textBody?.[0]?.partId, the condition of ?:
HasBody(message) == PartValue(message, "body") # <<>> \/ FirstPartId(message) # ""

\* message.textBody[0].partId of the true branch has no ?. : a TypeError when
\* there is no first text body part
BodyThrows(message) == HasBody(message) /\ message.textBody = <<>>

\* A || B ? bodyValues?.[textBody[0].partId]?.value || '' : ''
BodyValue(message) ==
  IF HasBody(message) /\ ~BodyThrows(message)
    THEN PartValue(message, FirstPartId(message)) ELSE <<>>

\* getTextString throws
ComposeThrows(message, rule) == rule.body /\ BodyThrows(message)

\* parts, as pushed
Parts(message, rule) ==
  (IF rule.header # <<>> THEN <<HeaderValue(message, rule.header)>> ELSE <<>>)
  \o (IF rule.from
        THEN <<IF message.from = <<>> THEN <<>> ELSE message.from[1].email>>
        ELSE <<>>)
  \o (IF rule.to THEN <<ToValue(message)>> ELSE <<>>)
  \o (IF rule.subject THEN <<message.subject>> ELSE <<>>)
  \o (IF rule.body THEN <<BodyValue(message)>> ELSE <<>>)

\* parts.join('|').toLowerCase()
getTextString(message, rule) == ToLower(Join(Parts(message, rule), <<124>>))

\* Array.isArray(rule.contains) is looked at by the testRule of fastmailProc.js
\* 366-405 and of the mailbox variant, not by the one of fastmailProc.js 80-114
HandlesArrays(variant) == variant \in {"rewrite", "mailbox", "append"}

\* rule.contains.some(...), rule['one-of'].some(...)
SomeIncluded(textString, items) ==
  \E i \in DOMAIN items : Includes(textString, ToLower(items[i]))

\* a comparison that looks for the string inside the text
ExactAsSubstring(textString, str) == Includes(textString, ToLower(str))

\* textString !== rule.exact.toLowerCase(), negated
ExactPasses(textString, str) == textString = ToLower(str)

\* the conditions up to regex
PassesToRegex(textString, rule) ==
  /\ rule.empty # <<>> =>
       /\ ~(rule.empty[1] /\ textString # <<>>)
       /\ ~(~rule.empty[1] /\ textString = <<>>)
  /\ rule.notEmpty # <<>> =>
       /\ ~(rule.notEmpty[1] /\ textString = <<>>)
       /\ ~(~rule.notEmpty[1] /\ textString # <<>>)
  /\ rule.exact # <<>> => ExactPasses(textString, rule.exact[1])
  /\ rule.notExact # <<>> => ~ExactPasses(textString, rule.notExact[1])
  \* new RegExp(rule.regex, 'i').test(textString), for patterns of literal letters
  /\ rule.regex # <<>> => Includes(textString, ToLower(rule.regex[1]))

\* rule.contains.toLowerCase() on an array: a TypeError
TestThrows(variant, textString, rule) ==
  /\ PassesToRegex(textString, rule)
  /\ rule.contains # <<>>
  /\ rule.containsIsArray
  /\ ~HandlesArrays(variant)

\* the contains condition: rule.contains[1] is the string, or the array
ContainsPasses(textString, rule) ==
  IF rule.containsIsArray
    THEN SomeIncluded(textString, rule.contains[1])
    ELSE Includes(textString, ToLower(rule.contains[1]))

\* a rule that matches as soon as one of its conditions passes
testRuleAny(variant, textString, rule) ==
  \/ rule.empty # <<>> /\ (rule.empty[1] <=> textString = <<>>)
  \/ rule.notEmpty # <<>> /\ (rule.notEmpty[1] <=> textString # <<>>)
  \/ rule.exact # <<>> /\ ExactPasses(textString, rule.exact[1])
  \/ rule.notExact # <<>> /\ ~ExactPasses(textString, rule.notExact[1])
  \/ rule.regex # <<>> /\ Includes(textString, ToLower(rule.regex[1]))
  \/ rule.contains # <<>> /\ ContainsPasses(textString, rule)
  \/ rule.oneOf # <<>> /\ SomeIncluded(textString, rule.oneOf[1])

\* the value testRule returns (FALSE stands for "none" when it throws)
testRule(variant, textString, rule) ==
  /\ ~TestThrows(variant, textString, rule)
  /\ PassesToRegex(textString, rule)
  /\ rule.contains # <<>> => ContainsPasses(textString, rule)
  /\ rule.oneOf # <<>> => SomeIncluded(textString, rule.oneOf[1])

\* mailboxes.forEach(mb => { map[mb.name] = mb.id; map[mb.name.toLowerCase()] = mb.id })
\* then map[labelName]: the last assignment to that key wins; "" when unset
mailboxNameToId(mailboxes, labelName) ==
  LET hits == {i \in DOMAIN mailboxes :
                 mailboxes[i].name = labelName \/ ToLower(mailboxes[i].name) = labelName}
  IN IF hits = {} THEN ""
     ELSE mailboxes[CHOOSE i \in hits : \A j \in hits : j <= i].id

\* ------------------------------------------------------------ the rule loop
\* variant "labels":  src/fastmailProc.js 116-276 (labels always applied, no ledger)
\* variant "rewrite": src/fastmailProc.js 407-716 (SAVE_SUBJECTS, PROCESS_LABELS)
\* variant "mailbox": src/unnamed/part_000 565-748 (labels always applied, the
\*                    keywords of a removed label cleaned up, no ledger)
\* variant "append":  src/unnamed/part_001 124-380 (SAVE_SUBJECTS, PROCESS_LABELS,
\*                    the new subject lines appended to subjects.txt)
Variants == {"labels", "rewrite", "mailbox"}
LedgerVariants == {"rewrite", "append"}
AppliesLabels(variant) == IF variant \in {"labels", "mailbox"} THEN TRUE ELSE PROCESS_LABELS
TracksSubjects(variant) == variant \in LedgerVariants /\ SAVE_SUBJECTS

\* `${fromName} | ${message.subject} | ${message.id}`, and
\* `${fromName} | ${message.subject}` in the append variant
SubjectLine(variant, fromName, message) ==
  IF variant = "append" THEN fromName \o Sep \o message.subject
  ELSE fromName \o Sep \o message.subject \o Sep \o message.id

\* messageUpdates.mailboxIds[mailboxId] = true; messageModified = true
Labelled(variant, mailboxId, acc) ==
  IF AppliesLabels(variant)
    THEN [acc EXCEPT !.mailboxIds = @ \cup {mailboxId}, !.messageModified = TRUE]
    ELSE acc

\* if (!subjectsByLabel[labelName]) { a new Set, a new array }; labelOrder is
\* the insertion order of the keys of subjectLinesByLabel
WithLabel(labelName, acc) ==
  IF labelName \in DOMAIN acc.subjectsByLabel THEN acc
  ELSE [acc EXCEPT !.subjectsByLabel = @ @@ (labelName :> <<>>),
                   !.subjectLinesByLabel = @ @@ (labelName :> <<>>),
                   !.labelOrder = Append(@, labelName)]

\* subjectLinesByLabel[labelName].push(subjectLine) on a label that has no
\* array: a TypeError, "Cannot read properties of undefined"
PushThrows(labelName, acc) == labelName \notin DOMAIN acc.subjectLinesByLabel

\* if (!subjectsByLabel[labelName].has(fromName)) { add the name, push the line }
PushSubject(variant, labelName, fromName, message, acc) ==
  IF \E i \in DOMAIN acc.subjectsByLabel[labelName] :
       acc.subjectsByLabel[labelName][i] = fromName
    THEN acc
  ELSE IF PushThrows(labelName, acc)
    THEN [acc EXCEPT !.subjectsByLabel[labelName] = Append(@, fromName),
                     !.threw = TRUE]
    ELSE [acc EXCEPT
            !.subjectsByLabel[labelName] = Append(@, fromName),
            !.subjectLinesByLabel[labelName] =
              Append(@, SubjectLine(variant, fromName, message))]

\* if (SAVE_SUBJECTS && message.subject) { ... }
TrackSubject(variant, message, labelName, acc) ==
  IF ~(TracksSubjects(variant) /\ message.subject # <<>>) THEN acc
  ELSE PushSubject(variant, labelName, FromName(message), message,
                   WithLabel(labelName, acc))

\* if (mailboxId) { ... } of add-label
AddResolved(variant, message, labelName, mailboxId, acc) ==
  IF mailboxId = "" THEN acc
  ELSE TrackSubject(variant, message, labelName, Labelled(variant, mailboxId, acc))

\* if (rule['add-label']) { ... } of a matching rule
AddLabel(variant, mailboxes, message, rule, acc) ==
  IF rule.addLabel = <<>> THEN acc
  ELSE AddResolved(variant, message, rule.addLabel,
                   mailboxNameToId(mailboxes, rule.addLabel), acc)

\* delete messageUpdates.mailboxIds[mailboxId]; messageModified = true
Unlabelled(variant, mailboxId, acc) ==
  IF mailboxId # "" /\ AppliesLabels(variant)
    THEN [acc EXCEPT !.mailboxIds = @ \ {mailboxId}, !.messageModified = TRUE]
    ELSE acc

\* "Also remove any matching keywords (for cleanup)"
CleanKeywords(variant, labelName, acc) ==
  IF /\ variant = "mailbox" \/ (variant \in LedgerVariants /\ PROCESS_LABELS)
     /\ acc.keywords \cap {labelName, ToLower(labelName)} # {}
    THEN [acc EXCEPT !.keywords = @ \ {labelName, ToLower(labelName)},
                     !.messageModified = TRUE]
    ELSE acc

\* if (rule['remove-label']) { ... } of a matching rule
RemoveLabel(variant, mailboxes, message, rule, acc) ==
  IF rule.removeLabel = <<>> THEN acc
  ELSE CleanKeywords(variant, rule.removeLabel,
         Unlabelled(variant, mailboxNameToId(mailboxes, rule.removeLabel), acc))

\* the actions of one matching rule, in the order of the source
ApplyRule(variant, mailboxes, message, rule, acc) ==
  RemoveLabel(variant, mailboxes, message, rule,
    AddLabel(variant, mailboxes, message, rule, acc))

\* a rule loop that does not look at stop
StopIgnored(rule) == FALSE

\* after a matching rule with stop: stopProcessing = true; break
StopAfter(rule) == rule.stop

\* if (rule.stop) { stopProcessing = true; break; }
WithStop(rule, acc) ==
  IF StopAfter(rule) THEN [acc EXCEPT !.stopProcessing = TRUE] ELSE acc

\* getTextString or testRule throws: processMessages is left for the catch
RuleThrows(variant, message, rule) ==
  \/ ComposeThrows(message, rule)
  \/ TestThrows(variant, getTextString(message, rule), rule)

\* const textString = getTextString(message, rule);
\* if (testRule(textString, rule)) { ... }
Matched(variant, mailboxes, message, rule, acc) ==
  IF RuleThrows(variant, message, rule) THEN [acc EXCEPT !.threw = TRUE]
  ELSE IF testRule(variant, getTextString(message, rule), rule)
    THEN WithStop(rule, ApplyRule(variant, mailboxes, message, rule, acc))
    ELSE acc

\* for (const rule of rules['rule-list']) { ... }, from rule k on; the break
\* of a stop rule leaves the loop (stopProcessing is false when a message starts)
RECURSIVE RunRules(_, _, _, _, _, _)
RunRules(variant, mailboxes, message, ruleList, k, acc) ==
  IF k > Len(ruleList) \/ acc.stopProcessing \/ acc.threw THEN acc
  ELSE RunRules(variant, mailboxes, message, ruleList, k + 1,
         Matched(variant, mailboxes, message, ruleList[k], acc))

\* if (stopProcessing) break;  at the top of the message loop
SkipsRest(st) == st.stopProcessing

\* messageUpdates and messageModified when the rules of a message start
StartOf(message, st) ==
  [mailboxIds |-> message.mailboxIds, keywords |-> message.keywords,
   messageModified |-> FALSE, stopProcessing |-> FALSE, threw |-> FALSE,
   subjectsByLabel |-> st.subjectsByLabel,
   subjectLinesByLabel |-> st.subjectLinesByLabel,
   labelOrder |-> st.labelOrder]

\* if (messageModified) { updates[message.id] = messageUpdates; }
MessageDone(message, st, acc) ==
  [updates |-> IF acc.messageModified
                 THEN (message.id :> [mailboxIds |-> acc.mailboxIds,
                                      keywords |-> acc.keywords]) @@ st.updates
                 ELSE st.updates,
   stopProcessing |-> acc.stopProcessing,
   threw |-> acc.threw,
   evaluated |-> Append(st.evaluated, message.id),
   subjectsByLabel |-> acc.subjectsByLabel,
   subjectLinesByLabel |-> acc.subjectLinesByLabel,
   labelOrder |-> acc.labelOrder]

\* for (const message of messages) { ... }, from message i on
RECURSIVE RunMessages(_, _, _, _, _, _)
RunMessages(variant, mailboxes, messages, ruleList, i, st) ==
  IF i > Len(messages) \/ SkipsRest(st) \/ st.threw THEN st
  ELSE RunMessages(variant, mailboxes, messages, ruleList, i + 1,
         MessageDone(messages[i], st,
           RunRules(variant, mailboxes, messages[i], ruleList, 1,
                    StartOf(messages[i], st))))

\* ------------------------------------------------------------- the ledger
\* readFileSync(..).split('\n') of a file that may not exist ('' when missing)
ReadLines(file) == IF file = <<>> THEN << <<>> >> ELSE file

\* the loop of "Load existing subjects": label -> names in insertion order.
\* cur is the empty sequence while currentLabel is null.
RECURSIVE LoadFrom(_, _, _, _)
LoadFrom(lines, k, cur, byLabel) ==
  IF k > Len(lines) THEN byLabel
  ELSE LET line == lines[k] IN
    IF IsHeader(line)
      THEN LET label == HeaderLabel(line)
           IN LoadFrom(lines, k + 1, <<label>>,
                IF label \in DOMAIN byLabel THEN byLabel ELSE byLabel @@ (label :> <<>>))
    ELSE IF Trim(line) # <<>> /\ cur # <<>> /\ cur[1] # <<>> /\ Includes(line, Sep)
      THEN LET fromName == LineFrom(line)
               names == byLabel[cur[1]]
           IN LoadFrom(lines, k + 1, cur,
                IF \E i \in DOMAIN names : names[i] = fromName THEN byLabel
                ELSE [byLabel EXCEPT ![cur[1]] = Append(@, fromName)])
    ELSE LoadFrom(lines, k + 1, cur, byLabel)

EmptyMap == [x \in {} |-> <<>>]

\* if (existsSync('subjects.txt')) { ... }
LoadSubjects(file) ==
  IF file = <<>> THEN EmptyMap ELSE LoadFrom(file, 1, <<>>, EmptyMap)

\* the from names of both files: "Duplicate checking is by from name only"
NamesOf(lines) ==
  {LineFrom(lines[k]) : k \in {i \in DOMAIN lines :
      Trim(lines[i]) # <<>> /\ Includes(lines[i], Sep) /\ ~IsHeader(lines[i])}}

\* a duplicate check that reads subjects.txt only
ExistingInSubjectsOnly(subjectsContent, exclusionsContent) ==
  NamesOf(subjectsContent)

\* existingFromNames: the from names of subjects.txt and of exclusions.txt
ExistingFromNames(subjectsContent, exclusionsContent) ==
  NamesOf(subjectsContent) \cup NamesOf(exclusionsContent)

\* a subjectMap that takes no line from subjects.txt
SubjectMapLeftEmpty(lines, k, label, inCurrentLabel, subjectMap) == subjectMap

\* subjectMap of one label from subjects.txt: from name -> its first line there
RECURSIVE SubjectMapFrom(_, _, _, _, _)
SubjectMapFrom(lines, k, label, inCurrentLabel, subjectMap) ==
  IF k > Len(lines) THEN subjectMap
  ELSE LET line == lines[k] IN
    IF IsHeader(line)
      THEN SubjectMapFrom(lines, k + 1, label, HeaderLabel(line) = label, subjectMap)
    ELSE IF inCurrentLabel /\ Trim(line) # <<>> /\ Includes(line, Sep)
      THEN SubjectMapFrom(lines, k + 1, label, inCurrentLabel,
             IF LineFrom(line) \in DOMAIN subjectMap THEN subjectMap
             ELSE subjectMap @@ (LineFrom(line) :> line))
    ELSE SubjectMapFrom(lines, k + 1, label, inCurrentLabel, subjectMap)

\* is a candidate of this run a duplicate (its from name is in either file)?
IsDuplicate(fromName, existingFromNames) == fromName \in existingFromNames

\* "Add new subjects from this run only if not in either file"
RECURSIVE AddNewSubjects(_, _, _)
AddNewSubjects(subjectLines, k, st) ==
  IF k > Len(subjectLines) THEN st
  ELSE LET fromName == LineFrom(subjectLines[k]) IN
    IF ~IsDuplicate(fromName, st.existingFromNames)
      THEN AddNewSubjects(subjectLines, k + 1,
             [subjectMap |-> (fromName :> subjectLines[k]) @@ st.subjectMap,
              existingFromNames |-> st.existingFromNames \cup {fromName}])
      ELSE AddNewSubjects(subjectLines, k + 1, st)

\* Object.keys(subjectsByLabel).sort()
RECURSIVE SortedLabels(_)
SortedLabels(S) ==
  IF S = {} THEN <<>>
  ELSE LET m == CHOOSE x \in S : \A y \in S \ {x} : StrLess(x, y)
       IN <<m>> \o SortedLabels(S \ {m})

\* the from names of a label left in insertion order
UnsortedFromNames(names) == names

\* Array.from(subjectsByLabel[label]).sort(case-insensitive)
SortedFromNames(names) == SortLower(names)

\* is a section pushed for a label with these from names?
EmitsSection(fromNames) == Len(fromNames) > 0

\* `======= ${label} =======\n${allSubjects.join('\n')}` as lines
SectionLines(label, allSubjects) ==
  <<HeaderLine(label)>> \o (IF allSubjects = <<>> THEN << <<>> >> ELSE allSubjects)

\* names.map(fromName => subjectMap[fromName])
MapLines(names, subjectMap) == [i \in DOMAIN names |-> subjectMap[names[i]]]

\* fromNames.map(fromName => subjectMap[fromName]).filter(Boolean)
AllSubjects(fromNames, subjectMap) ==
  MapLines(SelectSeq(fromNames, LAMBDA n : n \in DOMAIN subjectMap), subjectMap)

\* sections.push(...) after the merge of one label
Pushed(label, fromNames, merged, sections) ==
  [existingFromNames |-> merged.existingFromNames,
   sections |-> Append(sections,
                  SectionLines(label, AllSubjects(fromNames, merged.subjectMap)))]

\* the body of the loop over allLabels for one label
SectionFor(label, fromNames, subjectLines, subjectsContent, out) ==
  IF ~EmitsSection(fromNames) THEN out
  ELSE Pushed(label, fromNames,
         AddNewSubjects(subjectLines, 1,
           [subjectMap |-> SubjectMapFrom(subjectsContent, 1, label, FALSE, EmptyMap),
            existingFromNames |-> out.existingFromNames]),
         out.sections)

\* if (subjectLinesByLabel[label]) { for (const subjectLine of ...) }
LinesOf(linesByLabel, label) ==
  IF label \in DOMAIN linesByLabel THEN linesByLabel[label] ELSE <<>>

\* for (const label of allLabels) { ... }, from label k on
RECURSIVE BuildSections(_, _, _, _, _, _)
BuildSections(allLabels, k, byLabel, linesByLabel, subjectsContent, out) ==
  IF k > Len(allLabels) THEN out
  ELSE BuildSections(allLabels, k + 1, byLabel, linesByLabel, subjectsContent,
         SectionFor(allLabels[k], SortedFromNames(byLabel[allLabels[k]]),
                    LinesOf(linesByLabel, allLabels[k]), subjectsContent, out))

\* (sections.join('\n\n') + '\n').split('\n')
RECURSIVE FileOfSections(_)
FileOfSections(sections) ==
  IF sections = <<>> THEN <<>>
  ELSE sections[1] \o << <<>> >> \o FileOfSections(Tail(sections))

\* the sections built from the two contents read at 644-645
SectionsFrom(byLabel, linesByLabel, subjectsContent, exclusionsContent) ==
  BuildSections(SortedLabels(DOMAIN byLabel), 1, byLabel, linesByLabel, subjectsContent,
    [existingFromNames |-> ExistingFromNames(subjectsContent, exclusionsContent),
     sections |-> <<>>]).sections

\* "Save all subjects to file organized by label": the sections pushed
RewriteSections(byLabel, linesByLabel, subjectsFile, exclusionsFile) ==
  SectionsFrom(byLabel, linesByLabel, ReadLines(subjectsFile), ReadLines(exclusionsFile))

\* if (SAVE_SUBJECTS && Object.keys(subjectsByLabel).length > 0) ... if (sections.length > 0)
WritesSubjects(byLabel, sections) == DOMAIN byLabel # {} /\ Len(sections) > 0

\* subjects.sort((a, b) => nameA.localeCompare(nameB)) on the lower-cased
\* a.split(' | ')[0]: insertion after every line whose name is not greater
RECURSIVE InsertLine(_, _)
InsertLine(sorted, x) ==
  IF sorted = <<>> THEN <<x>>
  ELSE IF LowerLess(LineFrom(x), LineFrom(sorted[Len(sorted)]))
         THEN InsertLine(SubSeq(sorted, 1, Len(sorted) - 1), x) \o <<sorted[Len(sorted)]>>
         ELSE Append(sorted, x)

RECURSIVE SortLines(_)
SortLines(s) ==
  IF s = <<>> THEN <<>>
  ELSE InsertLine(SortLines(SubSeq(s, 1, Len(s) - 1)), s[Len(s)])

\* `\n======= ${label} =======\n${subjects.join('\n')}`, as lines
AppendSection(label, subjectLines) ==
  IF Len(subjectLines) > 0
    THEN << <<>>, HeaderLine(label) >> \o SortLines(subjectLines)
    ELSE <<>>

\* for (const [label, subjects] of Object.entries(subjectLinesByLabel)) and
\* sections.join('\n'), as lines: the sections in the insertion order of the labels
RECURSIVE AppendSections(_, _, _)
AppendSections(labelOrder, k, linesByLabel) ==
  IF k > Len(labelOrder) THEN <<>>
  ELSE AppendSection(labelOrder[k], linesByLabel[labelOrder[k]])
         \o AppendSections(labelOrder, k + 1, linesByLabel)

\* if (SAVE_SUBJECTS && Object.keys(subjectLinesByLabel).length > 0) ... if (sections.length > 0)
AppendsSubjects(linesByLabel) ==
  /\ SAVE_SUBJECTS
  /\ \E l \in DOMAIN linesByLabel : Len(linesByLabel[l]) > 0

\* appendFileSync(file, text): the first line of the text goes on after the
\* last line of the content
AppendText(content, text) ==
  SubSeq(content, 1, Len(content) - 1) \o <<content[Len(content)] \o text[1]>> \o Tail(text)

\* subjects.txt after appendFileSync('subjects.txt', sections.join('\n') + '\n'),
\* or left as it is
Appended(subjectsFile, labelOrder, linesByLabel) ==
  IF AppendsSubjects(linesByLabel)
    THEN AppendText(ReadLines(subjectsFile),
                    AppendSections(labelOrder, 1, linesByLabel) \o << <<>> >>)
    ELSE subjectsFile

\* ------------------------------------------------- the inputs of the model
\* labels "A", "B"; the scan folder "In"; senders "a", "B", "a@"; subjects "x", "y"
LabelA == <<65>>
LabelB == <<66>>
ScanFolder == <<73, 110>>

Entry(fromName, subject, id) == fromName \o Sep \o subject \o Sep \o id

\* ledger files as the programs write them
NoFile == <<>>
LedgerA == <<HeaderLine(LabelA), Entry(<<97>>, <<121>>, <<57>>), <<>>>>
LedgerEmptyA == <<HeaderLine(LabelA), <<>>, <<>>,
                  HeaderLine(LabelB), Entry(<<66>>, <<121>>, <<56>>), <<>>>>
LedgerB == <<HeaderLine(LabelB), Entry(<<66>>, <<121>>, <<56>>), <<>>>>
ExcludedB == <<HeaderLine(LabelA), Entry(<<66>>, <<121>>, <<55>>), <<>>>>
ExcludedA == <<HeaderLine(LabelB), Entry(<<97>>, <<120>>, <<54>>), <<>>>>

\* the pairs (subjects.txt, exclusions.txt) a behaviour starts from
InitLedgers == {<<NoFile, NoFile>>, <<LedgerA, ExcludedB>>,
                <<LedgerEmptyA, NoFile>>, <<LedgerB, ExcludedA>>}

NoOpt == <<>>
Condless == [header |-> <<>>, from |-> FALSE, to |-> FALSE, subject |-> FALSE, body |-> FALSE,
             empty |-> NoOpt, notEmpty |-> NoOpt, exact |-> NoOpt, notExact |-> NoOpt,
             regex |-> NoOpt, contains |-> NoOpt, containsIsArray |-> FALSE,
             oneOf |-> NoOpt,
             addLabel |-> <<>>, removeLabel |-> <<>>, stop |-> FALSE]

\* {subject: true, contains: "X", "add-label": "A", stop: true}
RuleStopA == [Condless EXCEPT !.subject = TRUE, !.contains = << <<88>> >>,
                              !.addLabel = LabelA, !.stop = TRUE]
\* {from: true, "not-empty": true, "add-label": "B"}
RuleFromB == [Condless EXCEPT !.from = TRUE, !.notEmpty = <<TRUE>>, !.addLabel = LabelB]
\* {subject: true, "one-of": ["x"], "add-label": "A"}
RuleXA == [Condless EXCEPT !.subject = TRUE, !.oneOf = << <<<<120>>>> >>, !.addLabel = LabelA]
\* {subject: true, exact: "Y", "add-label": "B", "remove-label": "A"}
RuleYB == [Condless EXCEPT !.subject = TRUE, !.exact = << <<89>> >>,
                           !.addLabel = LabelB, !.removeLabel = LabelA]

NoRules == [scanFolder |-> <<>>, Folders |-> <<>>, ruleList |-> <<>>]

\* rules.jsonc, read when the script starts
RuleConfigs ==
  {[scanFolder |-> ScanFolder, Folders |-> <<>>, ruleList |-> <<RuleStopA, RuleFromB>>],
   [scanFolder |-> ScanFolder, Folders |-> <<LabelB>>, ruleList |-> <<RuleXA, RuleYB>>]}

Mailbox(id, name) == [id |-> id, name |-> name]
MailboxLists ==
  {<<Mailbox("M0", ScanFolder), Mailbox("M1", LabelA), Mailbox("M2", LabelB)>>,
   <<Mailbox("M0", ScanFolder), Mailbox("M1", LabelA)>>,
   <<Mailbox("M1", LabelA)>>}

Message(id, name, email, subject, boxes) ==
  [id |-> id, from |-> <<[name |-> name, email |-> email]>>, to |-> <<>>,
   subject |-> subject, headers |-> <<>>, textBody |-> <<>>,
   bodyValues |-> <<>>, mailboxIds |-> boxes, keywords |-> {}]

\* 1: no display name, from "a@", subject "x";  2: from "B", subject "y";
\* 3: from "a", subject "y", already in mailbox A
MessagePool ==
  {Message(<<49>>, <<>>, <<97, 64>>, <<120>>, {"M0"}),
   Message(<<50>>, <<66>>, <<98, 64>>, <<121>>, {"M0"}),
   Message(<<51>>, <<97>>, <<97, 64>>, <<121>>, {"M0", "M1"})}

\* the lists an Email/get can return: distinct messages, at most MaxMsgs of them
ListsOf(pool) ==
  {ms \in UNION {[1..n -> pool] : n \in 0..MaxMsgs} :
     \A i, j \in DOMAIN ms : i # j => ms[i] # ms[j]}
MessageLists == ListsOf(MessagePool)

\* a second message of the sender "a@", with the subject "y"
SecondMessage == Message(<<54>>, <<>>, <<97, 64>>, <<121>>, {"M0"})
SenderLists == ListsOf(MessagePool \cup {SecondMessage})

\* rules whose labels "Old" and "Gone" name no mailbox:
\* {subject: true, contains: "y", "remove-label": "Old"},
\* {from: true, "not-empty": true, "add-label": "Gone"},
\* and a message with the subject "y" that has the keyword "old"
Old == <<79, 108, 100>>
RuleDropOld == [Condless EXCEPT !.subject = TRUE, !.contains = << <<121>> >>,
                                !.removeLabel = Old]
RuleAddGone == [Condless EXCEPT !.from = TRUE, !.notEmpty = <<TRUE>>,
                                !.addLabel = <<71, 111, 110, 101>>]
UnresolvedConfigs ==
  {[scanFolder |-> ScanFolder, Folders |-> <<>>, ruleList |-> <<RuleDropOld, RuleAddGone>>],
   [scanFolder |-> ScanFolder, Folders |-> <<>>, ruleList |-> <<RuleAddGone, RuleYB>>]}
KeywordMessage ==
  [Message(<<53>>, <<67>>, <<99, 64>>, <<121>>, {"M0"}) EXCEPT !.keywords = {ToLower(Old)}]
KeywordLists == ListsOf(MessagePool \cup {KeywordMessage})

\* a message "Invoice #123 due" from "Acme", the rule
\* {subject: true, contains: "invoice", "add-label": "Receipts"} and a mailbox
\* list in which Receipts has the id M1
Receipts == <<82, 101, 99, 101, 105, 112, 116, 115>>
InvoiceMessage ==
  Message(<<52>>, <<65, 99, 109, 101>>, <<98, 64>>,
          <<73, 110, 118, 111, 105, 99, 101, 32, 35, 49, 50, 51, 32, 100, 117, 101>>,
          {"M0"})
InvoiceRule ==
  [Condless EXCEPT !.subject = TRUE,
                   !.contains = << <<105, 110, 118, 111, 105, 99, 101>> >>,
                   !.addLabel = Receipts]
InvoiceConfigs ==
  {[scanFolder |-> ScanFolder, Folders |-> <<>>, ruleList |-> <<InvoiceRule>>]}
InvoiceMailboxes == {<<Mailbox("M0", ScanFolder), Mailbox("M1", Receipts)>>}
InvoiceLists == ListsOf(MessagePool \cup {InvoiceMessage})

\* ------------------------------------------------------------------- state
VARIABLES
  subjects,             \* subjects.txt (the kept ledger)
  exclusions,           \* exclusions.txt (the excluded ledger)
  clientHasLock,        \* fastmail-host.js
  lockTimestamp,        \* <<>> for null, else <<Date.now() at the save>>
  now,                  \* Date.now()
  ticks,                \* clock advances so far
  rules,                \* rules.jsonc
  pc,                   \* where the batch run is: "idle", "loaded", "processed", "merged"
  variant,              \* which processMessages is running
  subjectsByLabel,      \* processMessages: label -> from names
  subjectLinesByLabel,  \* processMessages: label -> new subject lines
  sections,             \* processMessages: the sections built for the rewrite
  updates,              \* the update argument of the last Email/set ("none": no call)
  run,                  \* history: the inputs and snapshots of the current run
  last                  \* history: the last operation and its response

vars == <<subjects, exclusions, clientHasLock, lockTimestamp, now, ticks, rules, pc,
          variant, subjectsByLabel, subjectLinesByLabel, sections, updates, run, last>>

lockVars == <<clientHasLock, lockTimestamp>>
clockVars == <<now, ticks>>
fileVars == <<subjects, exclusions>>
batchVars == <<rules, pc, variant, subjectsByLabel, subjectLinesByLabel, sections,
               updates, run>>

NoUpdates == [x \in {} |-> [mailboxIds |-> {}, keywords |-> {}]]
\* run.settled: the ledger is as the last ledger run left it; run.repeat: this
\* run has the input of the last ledger run and started from what that run left
\* run.candidates: the <<label, from name>> pairs pushed as new subject lines
\* run.failed: a remote call of the run failed
\* run.merged: the file the sections built at 636-703 make; run.windowSave: the
\* content a save put in subjects.txt after they were built (<<>>: none)
NoRun == [messages |-> <<>>, mailboxes |-> <<>>, ruleList |-> <<>>, evaluated |-> <<>>,
          candidates |-> {}, startSubjects |-> <<>>, startExclusions |-> <<>>,
          merged |-> <<>>, windowSave |-> <<>>, failed |-> FALSE,
          raced |-> FALSE, settled |-> FALSE, repeat |-> FALSE]
\* last.given: the content of a save request (<<>> when undefined)
\* last.sent: the run sent its Email/set; last.call: the remote call that failed;
\* last.calls: the remote calls the run made
\* last.message, rule, variant, mailboxes, label: the arguments of a call of
\* getTextString, testRule or of a lookup in mailboxNameToId; last.raw: the
\* joined parts; last.text, matched, id: what the call returned; last.threw: it
\* threw instead
Op(name) == [op |-> name, status |-> 0, locked |-> FALSE, content |-> <<>>,
             type |-> "", given |-> <<>>, heldBefore |-> FALSE, stampBefore |-> <<>>,
             subjectsBefore |-> <<>>, wrote |-> FALSE,
             message |-> <<>>, rule |-> <<>>, variant |-> "", raw |-> <<>>,
             text |-> <<>>, matched |-> FALSE, threw |-> FALSE,
             mailboxes |-> <<>>, label |-> <<>>, id |-> "", sent |-> FALSE,
             call |-> "", calls |-> {}, exclusionsBefore |-> <<>>]

\* the state before anything has run, with the ledger files as some pair of
\* ledgers has them
InitWith(ledgers, first) ==
  /\ \E pair \in ledgers : subjects = pair[1] /\ exclusions = pair[2]
  /\ clientHasLock = FALSE
  /\ lockTimestamp = <<>>
  /\ now = 1
  /\ ticks = 0
  /\ rules = NoRules
  /\ pc = "idle"
  /\ variant = "rewrite"
  /\ subjectsByLabel = EmptyMap
  /\ subjectLinesByLabel = EmptyMap
  /\ sections = <<>>
  /\ updates = NoUpdates
  /\ run = NoRun
  /\ last = first

Init == InitWith(InitLedgers, Op("init"))

\* --------------------------------------------------------------- batch run
\* subjectLinesByLabel after the load: an array per header in the rewrite
\* variant (fastmailProc.js 433), nothing in the append variant (part_001 147-149)
LoadedLines(v, byLabel) ==
  IF v = "append" THEN EmptyMap ELSE [l \in DOMAIN byLabel |-> <<>>]

\* the script starts: rules.jsonc is read, and processMessages runs up to the
\* first remote call, loading the ledger
BatchStart(v, config) ==
  /\ pc = "idle"
  /\ pc' = "loaded"
  /\ variant' = v
  /\ rules' = config
  /\ subjectsByLabel' = IF TracksSubjects(v) THEN LoadSubjects(subjects) ELSE EmptyMap
  /\ subjectLinesByLabel' = LoadedLines(v, subjectsByLabel')
  /\ updates' = NoUpdates
  /\ run' = [(IF run.settled THEN run ELSE NoRun) EXCEPT
                !.startSubjects = subjects, !.startExclusions = exclusions,
                !.evaluated = <<>>, !.candidates = {}, !.merged = <<>>,
                !.windowSave = <<>>, !.failed = FALSE, !.raced = FALSE,
                !.repeat = FALSE]
  /\ last' = Op("start")
  /\ UNCHANGED <<fileVars, lockVars, clockVars, sections>>

\* const requiredFolders = rules.Folders || [] in the ledger variant,
\* ['Promotions', 'Social', 'Updates', 'Receipts'] in the mailbox variant; the
\* variant of fastmailProc.js 116-276 creates none
RequiredFolders(v) ==
  IF v \in LedgerVariants THEN rules.Folders
  ELSE IF v = "mailbox"
    THEN <<<<80, 114, 111, 109, 111, 116, 105, 111, 110, 115>>,
           <<83, 111, 99, 105, 97, 108>>,
           <<85, 112, 100, 97, 116, 101, 115>>,
           Receipts>>
  ELSE <<>>

\* "Create required folders if they don't exist"
CreatedIds == <<"N1", "N2", "N3", "N4">>
WithRequiredFolders(v, mailboxes) ==
  LET existingFolderNames == {mailboxes[i].name : i \in DOMAIN mailboxes}
      foldersToCreate == SelectSeq(RequiredFolders(v), LAMBDA f : f \notin existingFolderNames)
  IN mailboxes \o [i \in DOMAIN foldersToCreate |->
                     Mailbox(CreatedIds[i], foldersToCreate[i])]

\* a run that scans the first mailbox of the list when none has the name
FirstMailboxScanned(mailboxes) == Len(mailboxes) > 0

\* mailboxes.find(mb => mb.name.toLowerCase() === rules['scan-folder'].toLowerCase())
HasScanMailbox(mailboxes) ==
  \E i \in DOMAIN mailboxes : ToLower(mailboxes[i].name) = ToLower(rules.scanFolder)

\* the run ends without reaching the ledger rewrite
EndRun(how) ==
  /\ pc' = "idle"
  /\ subjectsByLabel' = EmptyMap
  /\ subjectLinesByLabel' = EmptyMap
  /\ last' = how
  /\ UNCHANGED <<fileVars, lockVars, clockVars, rules, variant, sections>>

\* the history of a run whose rule loop is over
Ran(mailboxes, msgs, st) ==
  [run EXCEPT
     !.messages = msgs, !.mailboxes = mailboxes,
     !.ruleList = rules.ruleList, !.evaluated = st.evaluated,
     !.candidates =
       UNION {{<<l, LineFrom(st.subjectLinesByLabel[l][i])>> :
                 i \in DOMAIN st.subjectLinesByLabel[l]} :
              l \in DOMAIN st.subjectLinesByLabel},
     !.settled = FALSE,
     !.repeat = /\ run.settled
                /\ run.messages = msgs
                /\ run.mailboxes = mailboxes
                /\ run.ruleList = rules.ruleList]

\* if (Object.keys(updates).length > 0) { await jmapRequest([['Email/set', ...]]) }
EmailSetSent(update) == DOMAIN update # {}

\* the message loop, from the state processMessages has before it
Outcome(mailboxes, msgs) ==
  RunMessages(variant, mailboxes, msgs, rules.ruleList, 1,
    [updates |-> NoUpdates, stopProcessing |-> FALSE, threw |-> FALSE,
     evaluated |-> <<>>,
     subjectsByLabel |-> subjectsByLabel,
     subjectLinesByLabel |-> subjectLinesByLabel,
     labelOrder |-> <<>>])

\* the calls of jmapRequest in processMessages, in their order
RemoteCalls == {"Mailbox/get", "Mailbox/set", "Email/query", "Email/get", "Email/set"}

\* the run gets as far as making the call, on the answers mbs and msgs
CallIsMade(call, mbs, mailboxes, msgs) ==
  CASE call = "Mailbox/get" -> TRUE
    [] call = "Mailbox/set" -> Len(mailboxes) > Len(mbs)
    [] call = "Email/query" -> HasScanMailbox(mailboxes)
    [] call = "Email/get" -> HasScanMailbox(mailboxes) /\ Len(msgs) > 0
    [] call = "Email/set" -> /\ HasScanMailbox(mailboxes)
                             /\ Len(msgs) > 0
                             /\ ~Outcome(mailboxes, msgs).threw
                             /\ EmailSetSent(Outcome(mailboxes, msgs).updates)

\* how a run ended, on which mailbox list, and the remote calls it made
Ended(how, mbs, mailboxes, msgs) ==
  [Op(how) EXCEPT
     !.mailboxes = mailboxes,
     !.calls = {call \in RemoteCalls : CallIsMade(call, mbs, mailboxes, msgs)}]
Done(mbs, mailboxes, msgs, update) ==
  [Ended("process", mbs, mailboxes, msgs) EXCEPT !.sent = EmailSetSent(update)]

\* the rule loop is over and Email/set is sent; the rewrite variant goes on to
\* the rewrite, the append variant appends its new lines and ends, the
\* label-applying variant ends
Processed(mbs, mailboxes, msgs, st) ==
  IF st.threw
    THEN /\ EndRun(Ended("throw", mbs, mailboxes, msgs))
         /\ updates' = NoUpdates
         /\ run' = Ran(mailboxes, msgs, st)
  ELSE IF variant = "append"
    THEN /\ pc' = "idle"
         /\ subjectsByLabel' = EmptyMap
         /\ subjectLinesByLabel' = EmptyMap
         /\ subjects' = Appended(subjects, st.labelOrder, st.subjectLinesByLabel)
         /\ updates' = st.updates
         /\ run' = Ran(mailboxes, msgs, st)
         /\ last' = [Done(mbs, mailboxes, msgs, st.updates) EXCEPT
                       !.subjectsBefore = subjects,
                       !.wrote = AppendsSubjects(st.subjectLinesByLabel)]
         /\ UNCHANGED <<exclusions, lockVars, clockVars, rules, variant, sections>>
  ELSE IF TracksSubjects(variant)
    THEN /\ subjectsByLabel' = st.subjectsByLabel
         /\ subjectLinesByLabel' = st.subjectLinesByLabel
         /\ updates' = st.updates
         /\ run' = Ran(mailboxes, msgs, st)
         /\ pc' = "processed"
         /\ last' = Done(mbs, mailboxes, msgs, st.updates)
         /\ UNCHANGED <<fileVars, lockVars, clockVars, rules, variant, sections>>
    ELSE /\ EndRun(Done(mbs, mailboxes, msgs, st.updates))
         /\ updates' = st.updates
         /\ run' = Ran(mailboxes, msgs, st)

\* scan folder check, query, fetch and the rule loop, on the mailbox list
ProcessIn(mbs, mailboxes, msgs) ==
  IF ~HasScanMailbox(mailboxes)
    THEN /\ EndRun(Ended("nofolder", mbs, mailboxes, msgs))
         /\ UNCHANGED <<updates, run>>
  ELSE IF Len(msgs) = 0
    THEN /\ EndRun(Ended("empty", mbs, mailboxes, msgs))
         /\ UNCHANGED <<updates, run>>
  ELSE Processed(mbs, mailboxes, msgs, Outcome(mailboxes, msgs))

\* mailbox list, folder creation, query, fetch, the rule loop and Email/set
BatchProcess(mbs, msgs) ==
  /\ pc = "loaded"
  /\ ProcessIn(mbs, WithRequiredFolders(variant, mbs), msgs)

\* a run that goes on to the ledger after a failed call
GoesOnAfterFailure(call) == "processed"

\* if (!response.ok) throw ...; processMessages().catch(... process.exit(1)):
\* where the run is after the failed call
AfterFailure(call) == "idle"

\* a remote call gets a non-success response
BatchAbort(call, mbs, msgs) ==
  /\ pc = "loaded"
  /\ CallIsMade(call, mbs, WithRequiredFolders(variant, mbs), msgs)
  /\ pc' = AfterFailure(call)
  /\ subjectsByLabel' = IF pc' = "idle" THEN EmptyMap ELSE subjectsByLabel
  /\ subjectLinesByLabel' = IF pc' = "idle" THEN EmptyMap ELSE subjectLinesByLabel
  /\ run' = [run EXCEPT !.failed = TRUE]
  /\ last' = [Op("abort") EXCEPT !.call = call]
  /\ UNCHANGED <<fileVars, lockVars, clockVars, rules, variant, sections, updates>>

\* "Save all subjects to file organized by label": both files are read again
\* and the sections are built (636-703)
BatchMerge ==
  /\ pc = "processed"
  /\ pc' = "merged"
  /\ sections' = RewriteSections(subjectsByLabel, subjectLinesByLabel, subjects, exclusions)
  /\ run' = [run EXCEPT !.merged = FileOfSections(sections'), !.windowSave = <<>>]
  /\ last' = Op("merge")
  /\ UNCHANGED <<fileVars, lockVars, clockVars, rules, variant, subjectsByLabel,
                 subjectLinesByLabel, updates>>

\* a rewrite that adds the sections to what the file holds
WrittenAfter(byLabel, built, subjectsFile) ==
  IF WritesSubjects(byLabel, built)
    THEN subjectsFile \o FileOfSections(built) ELSE subjectsFile

\* subjects.txt after writeFileSync, or left as it is
Written(byLabel, built, subjectsFile) ==
  IF WritesSubjects(byLabel, built) THEN FileOfSections(built) ELSE subjectsFile

\* a rewrite that names the other ledger file
RewritesExclusions == "exclusions"

\* writeFileSync('subjects.txt', ...): the file the rewrite names
RewrittenFile == "subjects"

\* a ledger file after the rewrite: written if it is the one named
AfterRewrite(type, file) ==
  IF RewrittenFile = type THEN Written(subjectsByLabel, sections, file) ELSE file

\* if (sections.length > 0) { await import('fs'); writeFileSync(...) } (705-708)
BatchWrite ==
  /\ pc = "merged"
  /\ subjects' = AfterRewrite("subjects", subjects)
  /\ exclusions' = AfterRewrite("exclusions", exclusions)
  /\ last' = [Op("write") EXCEPT
                !.subjectsBefore = subjects, !.heldBefore = clientHasLock,
                !.wrote = WritesSubjects(subjectsByLabel, sections)]
  /\ pc' = "idle"
  /\ subjectsByLabel' = EmptyMap
  /\ subjectLinesByLabel' = EmptyMap
  /\ sections' = <<>>
  /\ run' = [run EXCEPT !.settled = ~run.raced]
  /\ UNCHANGED <<lockVars, clockVars, rules, variant, updates>>

\* -------------------------------------------------------------------- host
\* a timeout check that fires once the timeout has elapsed, not after it
ExpiredAtTimeout(held, stamp, t) ==
  held /\ stamp # <<>> /\ stamp[1] # 0 /\ (t - stamp[1] >= LOCK_TIMEOUT_MS)

\* checkLockTimeout(): the lock state after the check
Expired(held, stamp, t) ==
  held /\ stamp # <<>> /\ stamp[1] # 0 /\ (t - stamp[1] > LOCK_TIMEOUT_MS)

\* a check that leaves the flag of a timed out lock as it is
HeldKeptByCheck == clientHasLock

\* a check that gives a held lock a new timestamp
StampRefreshedByCheck == IF clientHasLock THEN <<now>> ELSE lockTimestamp

\* if (clientHasLock && lockTimestamp && (Date.now() - lockTimestamp > LOCK_TIMEOUT_MS))
\* { clientHasLock = false; lockTimestamp = null; }
HeldAfterCheck == IF Expired(clientHasLock, lockTimestamp, now) THEN FALSE ELSE clientHasLock
StampAfterCheck == IF Expired(clientHasLock, lockTimestamp, now) THEN <<>> ELSE lockTimestamp

\* a check of the type that only asks for one
AnyType(type) == type # ""

\* !type || !['subjects', 'exclusions'].includes(type)
ValidType(type) == type # "" /\ type \in {"subjects", "exclusions"}

Request(name, type) ==
  [Op(name) EXCEPT !.type = type, !.heldBefore = clientHasLock,
                   !.stampBefore = lockTimestamp,
                   !.subjectsBefore = subjects, !.exclusionsBefore = exclusions]

\* if (!existsSync(filepath)) content is '', else readFileSync(filepath)
ContentOf(file) == IF file = NoFile THEN << <<>> >> ELSE file

\* app.get('/api/data')
GetData(type) ==
  /\ clientHasLock' = HeldAfterCheck
  /\ lockTimestamp' = StampAfterCheck
  /\ last' = IF ~ValidType(type)
               THEN [Request("read", type) EXCEPT !.status = 400]
               ELSE [Request("read", type) EXCEPT
                       !.status = 200, !.locked = HeldAfterCheck,
                       !.content = ContentOf(IF type = "subjects" THEN subjects
                                                                  ELSE exclusions)]
  /\ UNCHANGED <<fileVars, clockVars, batchVars>>

\* a save handler that refuses while the lock is held
SaveRefusedWhenHeld(held) == ~held

\* does POST /api/data with a valid body write the file? (the lock is not asked)
SaveAllowed(held) == TRUE

\* a save that keeps the timestamp of a lock already held
AcquiredOnce(held, stamp, t) == IF held THEN stamp ELSE <<t>>

\* lockTimestamp = Date.now(), whatever the lock was before
AcquiredAt(held, stamp, t) == <<t>>

\* app.post('/api/data'); content is <<>> when undefined, else <<the lines>>;
\* writable: writeFileSync does not throw
PostData(type, content, writable) ==
  LET valid == ValidType(type) /\ content # <<>> /\ SaveAllowed(HeldAfterCheck)
      ok == valid /\ writable
      request == [Request("save", type) EXCEPT !.given = content]
  IN /\ subjects' = IF ok /\ type = "subjects" THEN content[1] ELSE subjects
     /\ exclusions' = IF ok /\ type = "exclusions" THEN content[1] ELSE exclusions
     /\ clientHasLock' = IF ok THEN TRUE ELSE HeldAfterCheck
     /\ lockTimestamp' = IF ok THEN AcquiredAt(HeldAfterCheck, StampAfterCheck, now)
                               ELSE StampAfterCheck
     /\ last' = IF ok
                  THEN [request EXCEPT !.status = 200, !.locked = TRUE,
                                       !.content = content[1], !.wrote = TRUE]
                  ELSE [request EXCEPT !.status = IF valid THEN 500 ELSE 400]
     /\ run' = IF ok
                 THEN [run EXCEPT
                         !.raced = (pc # "idle"), !.settled = FALSE,
                         !.windowSave = IF pc = "merged" /\ type = "subjects"
                                          THEN <<content[1]>> ELSE @]
                 ELSE run
     /\ UNCHANGED <<clockVars, rules, pc, variant, subjectsByLabel, subjectLinesByLabel,
                    sections, updates>>

\* app.post('/api/release-lock')
ReleaseLock ==
  /\ clientHasLock' = FALSE
  /\ lockTimestamp' = <<>>
  /\ last' = [Request("release", "") EXCEPT !.status = 200]
  /\ UNCHANGED <<fileVars, clockVars, batchVars>>

\* app.get('/api/lock-status')
LockStatus ==
  /\ clientHasLock' = HeldAfterCheck
  /\ lockTimestamp' = StampAfterCheck
  /\ last' = [Request("status", "") EXCEPT !.status = 200, !.locked = HeldAfterCheck]
  /\ UNCHANGED <<fileVars, clockVars, batchVars>>

\* time passes
Tick(d) ==
  /\ ticks < MaxTicks
  /\ now' = now + d
  /\ ticks' = ticks + 1
  /\ last' = Op("tick")
  /\ UNCHANGED <<fileVars, lockVars, batchVars>>

\* ------------------------------------------------ the functions, on their own
\* a pending call is last with op "getTextString", "testRule" or
\* "mailboxNameToId" and the arguments

\* getTextString(message, rule)
Compose ==
  /\ last.op = "getTextString"
  /\ last' = [last EXCEPT
                !.op = "compose",
                !.threw = ComposeThrows(last.message, last.rule),
                !.raw = Join(Parts(last.message, last.rule), <<124>>),
                !.text = IF ComposeThrows(last.message, last.rule) THEN <<>>
                         ELSE getTextString(last.message, last.rule)]
  /\ UNCHANGED <<fileVars, lockVars, clockVars, batchVars>>

\* testRule(getTextString(message, rule), rule), as the rule loop calls it
Test ==
  /\ last.op = "testRule"
  /\ ~ComposeThrows(last.message, last.rule)
  /\ last' = [last EXCEPT
                !.op = "test",
                !.raw = Join(Parts(last.message, last.rule), <<124>>),
                !.text = getTextString(last.message, last.rule),
                !.threw = TestThrows(last.variant,
                                     getTextString(last.message, last.rule), last.rule),
                !.matched = testRule(last.variant,
                                     getTextString(last.message, last.rule), last.rule)]
  /\ UNCHANGED <<fileVars, lockVars, clockVars, batchVars>>

\* mailboxNameToId[labelName], after the map is built from the mailbox list
Resolve ==
  /\ last.op = "mailboxNameToId"
  /\ last' = [last EXCEPT
                !.op = "resolve",
                !.id = mailboxNameToId(last.mailboxes, last.label)]
  /\ UNCHANGED <<fileVars, lockVars, clockVars, batchVars>>

\* messages with each field present or absent: from "A@", to "b@" and "C@",
\* subject "X y", header H: "V", a text body part "1" or "body" with or without
\* its value "Bo", a value "body" without a text body part
Bodies ==
  {[textBody |-> <<>>, bodyValues |-> <<>>],
   [textBody |-> <<"1">>, bodyValues |-> ("1" :> <<66, 111>>)],
   [textBody |-> <<"body">>, bodyValues |-> ("body" :> <<66, 111>>)],
   [textBody |-> <<"1">>, bodyValues |-> <<>>],
   [textBody |-> <<>>, bodyValues |-> ("body" :> <<66, 111>>)]}
FieldMessages ==
  {[Message(<<49>>, <<>>, <<>>, subject, {"M0"}) EXCEPT
      !.from = from, !.to = to, !.headers = headers,
      !.textBody = body.textBody, !.bodyValues = body.bodyValues] :
     from \in {<<>>, <<[name |-> <<>>, email |-> <<65, 64>>]>>},
     to \in {<<>>, <<[email |-> <<98, 64>>]>>,
             <<[email |-> <<98, 64>>], [email |-> <<67, 64>>]>>},
     subject \in {<<>>, <<88, 32, 121>>},
     headers \in {<<>>, <<[name |-> <<72>>, value |-> <<86>>]>>},
     body \in Bodies}

\* the rules with each selector set or not set (header: "h")
SelectorRules ==
  {[Condless EXCEPT !.header = header, !.from = from, !.to = to,
                    !.subject = subject, !.body = body] :
     header \in {<<>>, <<104>>}, from \in BOOLEAN, to \in BOOLEAN,
     subject \in BOOLEAN, body \in BOOLEAN}

\* messages with the subjects "", "X y", "X y z", "q"
SubjectMessages ==
  {Message(<<49>>, <<>>, <<97, 64>>, subject, {"M0"}) :
     subject \in {<<>>, <<88, 32, 121>>, <<88, 32, 121, 32, 122>>, <<113>>}}

\* the lists of contains and one-of: ["q", "Y"] and []
Lists == {<<<<113>>, <<89>>>>, <<>>}

\* rules on the subject with each condition key present or absent:
\* empty, not-empty: true, false; exact: "x Y"; not-exact: "X Y"; regex: "y";
\* contains: "Y" or a list; one-of: a list
ConditionRules ==
  {[Condless EXCEPT !.subject = TRUE, !.empty = empty, !.notEmpty = notEmpty,
                    !.exact = exact, !.notExact = notExact, !.regex = regex,
                    !.contains = contains[1], !.containsIsArray = contains[2],
                    !.oneOf = oneOf] :
     empty \in {<<>>, <<TRUE>>, <<FALSE>>},
     notEmpty \in {<<>>, <<TRUE>>, <<FALSE>>},
     exact \in {<<>>, << <<120, 32, 89>> >>},
     notExact \in {<<>>, << <<88, 32, 89>> >>},
     regex \in {<<>>, << <<121>> >>},
     contains \in {<< <<>>, FALSE >>, << << <<89>> >>, FALSE >>}
                    \cup {<< <<list>>, TRUE >> : list \in Lists},
     oneOf \in {<<>>} \cup {<<list>> : list \in Lists}}

\* mailbox lists with the names "foo" and "Foo" in both orders, alone and
\* with "In", and the label names looked up
Foo == <<102, 111, 111>>
UpperFoo == <<70, 111, 111>>
ResolveLists ==
  {<<Mailbox("M1", Foo), Mailbox("M2", UpperFoo)>>,
   <<Mailbox("M2", UpperFoo), Mailbox("M1", Foo)>>,
   <<Mailbox("M0", ScanFolder), Mailbox("M2", UpperFoo)>>,
   <<Mailbox("M0", ScanFolder), Mailbox("M1", Foo)>>,
   <<Mailbox("M0", ScanFolder)>>}
ResolveLabels == {Foo, UpperFoo, ScanFolder, LabelA}

\* the calls checked on their own
Calls ==
  {[Op("getTextString") EXCEPT !.message = message, !.rule = rule] :
     message \in FieldMessages, rule \in SelectorRules}
  \cup {[Op("testRule") EXCEPT !.variant = v, !.message = message, !.rule = rule] :
         v \in Variants, message \in SubjectMessages, rule \in ConditionRules}
  \cup {[Op("mailboxNameToId") EXCEPT !.mailboxes = mailboxes, !.label = labelName] :
         mailboxes \in ResolveLists, labelName \in ResolveLabels}

RequestTypes == {"subjects", "exclusions", "rules", ""}
SaveContents == {<<>>, <<LedgerA>>, <<ExcludedA>>}
SlowSteps == {1, LOCK_TIMEOUT_MS - 1}

\* the inputs of the interleaved specification: one rule list, one message per
\* run, every label resolvable, well-formed save requests
StopRules == {config \in RuleConfigs : config.ruleList[1].stop}
OneMessage == {ms \in MessageLists : Len(ms) <= 1}
FullMailboxes == {mbs \in MailboxLists : Len(mbs) = 3}
LedgerTypes == {type \in RequestTypes : ValidType(type)}
OneContent == {<<LedgerA>>}

\* ---------------------------------------------------------- specifications
\* a run of the script up to the ledger rewrite
BatchRun(variants, configs, mailboxLists, messageLists) ==
  \/ \E v \in variants, config \in configs : BatchStart(v, config)
  \/ \E mbs \in mailboxLists, msgs \in messageLists : BatchProcess(mbs, msgs)
  \/ \E call \in RemoteCalls, mbs \in mailboxLists, msgs \in messageLists :
       BatchAbort(call, mbs, msgs)

Host(types, contents, disk) ==
  \/ \E type \in types : GetData(type)
  \/ \E type \in types, content \in contents, writable \in disk :
       PostData(type, content, writable)
  \/ ReleaseLock
  \/ LockStatus

\* batch runs of the ledger variant and the host, interleaved
Next ==
  \/ BatchRun({"rewrite"}, StopRules, FullMailboxes, OneMessage)
  \/ BatchMerge
  \/ BatchWrite
  \/ Host(LedgerTypes, OneContent, {TRUE})
Spec == Init /\ [][Next]_vars

\* batch runs of the ledger variant alone, one after the other
NextBatch ==
  \/ BatchRun({"rewrite"}, RuleConfigs, MailboxLists, MessageLists)
  \/ BatchMerge
  \/ BatchWrite
SpecBatch == Init /\ [][NextBatch]_vars

\* batch runs of the label-applying variant alone
NextLabels == BatchRun({"labels"}, RuleConfigs, MailboxLists, MessageLists)
SpecLabels == Init /\ [][NextLabels]_vars

\* batch runs of the two label-applying variants, with labels that name no mailbox
NextMailbox ==
  BatchRun({"labels", "mailbox"}, RuleConfigs \cup UnresolvedConfigs, MailboxLists,
           KeywordLists)
SpecMailbox == Init /\ [][NextMailbox]_vars

\* batch runs of all the variants, one after the other
NextRuns ==
  \/ BatchRun(Variants, RuleConfigs, MailboxLists, MessageLists)
  \/ BatchMerge
  \/ BatchWrite
SpecRuns == Init /\ [][NextRuns]_vars

\* batch runs of the ledger variant over messages that share a sender
NextSenders ==
  \/ BatchRun({"rewrite"}, RuleConfigs, FullMailboxes, SenderLists)
  \/ BatchMerge
  \/ BatchWrite
SpecSenders == Init /\ [][NextSenders]_vars

\* batch runs of the append variant alone, one after the other
NextAppend == BatchRun({"append"}, RuleConfigs, MailboxLists, MessageLists)
SpecAppend == Init /\ [][NextAppend]_vars

\* batch runs of the ledger variant over the invoice rule
NextInvoice ==
  \/ BatchRun({"rewrite"}, InvoiceConfigs, InvoiceMailboxes, InvoiceLists)
  \/ BatchMerge
  \/ BatchWrite
SpecInvoice == Init /\ [][NextInvoice]_vars

\* calls of getTextString, testRule and the mailbox lookup on their inputs
InitRules == \E call \in Calls : InitWith({<<NoFile, NoFile>>}, call)
NextRules == Compose \/ Test \/ Resolve
SpecRules == InitRules /\ [][NextRules]_vars

\* the host alone, with the clock stepping around the timeout
NextHost == Host(RequestTypes, SaveContents, BOOLEAN) \/ \E d \in SlowSteps : Tick(d)
SpecHost == Init /\ [][NextHost]_vars

\* ------------------------------------------------- reading a ledger file back
\* an entry line of a ledger file: not a header, not blank, holding " | "
EntryLine(line) == ~IsHeader(line) /\ Trim(line) # <<>> /\ Includes(line, Sep)

EntryIndexes(file) == {i \in DOMAIN file : EntryLine(file[i])}
HeaderIndexes(file) == {i \in DOMAIN file : IsHeader(file[i])}

\* the senders with an entry in a file
Senders(file) == {LineFrom(file[i]) : i \in EntryIndexes(file)}

\* how many entries a sender has in a file
EntryCount(file, name) ==
  Cardinality({i \in EntryIndexes(file) : LineFrom(file[i]) = name})

\* the labels with a section in a file
HeaderLabels(file) == {HeaderLabel(file[i]) : i \in HeaderIndexes(file)}

\* the header line that opens the section of line i (0: none)
SectionAt(file, i) ==
  LET before == {h \in HeaderIndexes(file) : h < i}
  IN IF before = {} THEN 0 ELSE CHOOSE h \in before : \A g \in before : g <= h

\* the <<label, sender>> pairs of a file
LabelledSenders(file) ==
  {<<HeaderLabel(file[SectionAt(file, i)]), LineFrom(file[i])>> :
     i \in {e \in EntryIndexes(file) : SectionAt(file, e) # 0}}

\* the messages of the current run that the rule loop has not reached
Unevaluated ==
  {i \in DOMAIN run.messages :
     \A k \in DOMAIN run.evaluated : run.evaluated[k] # run.messages[i].id}

\* ------------------------------------------------------------------ claims

\* C1: when a run of the ledger variant has rewritten subjects.txt, no sender
\* that had an entry in subjects.txt or in exclusions.txt when the run started
\* has gained an entry: not under the label it had, not under another one.
NoReAddOfKnownSender ==
  last.op = "write" =>
    \A name \in Senders(run.startSubjects) \cup Senders(run.startExclusions) :
      /\ EntryCount(subjects, name) <= EntryCount(run.startSubjects, name)
      /\ \A pair \in LabelledSenders(subjects) :
           pair[2] = name => pair \in LabelledSenders(run.startSubjects)

\* a rewrite after a run that proposed a sender listed in exclusions.txt and a
\* sender kept under another label
KnownSendersProposed ==
  /\ last.op = "write"
  /\ last.wrote
  /\ \E c \in run.candidates : c[2] \in Senders(run.startExclusions)
  /\ \E c \in run.candidates :
       /\ c[2] \in Senders(run.startSubjects)
       /\ c \notin LabelledSenders(run.startSubjects)

\* C2: stop ends the rule evaluation of its own message only: once the rule
\* loop of a run is over, every fetched message has been evaluated.
StopIsPerMessage ==
  last.op = "process" => Unevaluated = {}

\* C3: in the label-applying variant, a message that matches a first rule with
\* stop and add-label A, and would match the second rule with add-label B, is
\* sent to Email/set with A added to its mailboxes and nothing else changed.
StopAppliesOwnActionsOnly ==
  (/\ last.op = "process"
   /\ variant = "labels"
   /\ Len(run.ruleList) = 2
   /\ run.ruleList[1].stop
   /\ run.ruleList[1].addLabel # <<>>
   /\ run.ruleList[2].addLabel # <<>>
   /\ testRule(variant, getTextString(run.messages[1], run.ruleList[1]), run.ruleList[1])
   /\ testRule(variant, getTextString(run.messages[1], run.ruleList[2]), run.ruleList[2])
   /\ mailboxNameToId(run.mailboxes, run.ruleList[1].addLabel) # "")
  => /\ run.messages[1].id \in DOMAIN updates
     /\ updates[run.messages[1].id].mailboxIds =
          run.messages[1].mailboxIds
            \cup {mailboxNameToId(run.mailboxes, run.ruleList[1].addLabel)}
     /\ updates[run.messages[1].id].keywords = run.messages[1].keywords

\* a message matched the stop rule while the label of the second rule resolves
\* to a mailbox the message is not in
StopRuleMatched ==
  /\ last.op = "process"
  /\ variant = "labels"
  /\ Len(run.ruleList) = 2
  /\ run.ruleList[1].stop
  /\ testRule(variant, getTextString(run.messages[1], run.ruleList[1]), run.ruleList[1])
  /\ testRule(variant, getTextString(run.messages[1], run.ruleList[2]), run.ruleList[2])
  /\ mailboxNameToId(run.mailboxes, run.ruleList[1].addLabel) \in
       updates[run.messages[1].id].mailboxIds
  /\ mailboxNameToId(run.mailboxes, run.ruleList[2].addLabel) # ""
  /\ mailboxNameToId(run.mailboxes, run.ruleList[2].addLabel) \notin
       updates[run.messages[1].id].mailboxIds

\* C4: a run of the ledger variant with the input of the run before it (same
\* messages, mailboxes and rules), started from the ledger that run left,
\* leaves subjects.txt as it found it.
MergeIsIdempotent ==
  (last.op = "write" /\ run.repeat) => subjects = run.startSubjects

\* a repeated run rewrote a ledger that holds entries, after proposing none
RepeatedRunRewrote ==
  /\ last.op = "write"
  /\ run.repeat
  /\ last.wrote
  /\ Senders(subjects) # {}
  /\ Cardinality(HeaderLabels(subjects)) = 2

\* C5: every label with a header in subjects.txt before the rewrite of a run
\* still has one after it, a label with no entries included.
SectionsAreNeverRemoved ==
  last.op = "write" => HeaderLabels(last.subjectsBefore) \subseteq HeaderLabels(subjects)

\* C6: in the subjects.txt a run has written, the headers come in ascending
\* label order, no label twice, and the entries of a section come in ascending
\* case-insensitive order of sender, no sender twice.
LedgerIsSorted ==
  (last.op = "write" /\ last.wrote) =>
    /\ \A g, h \in HeaderIndexes(subjects) :
         g < h => StrLess(HeaderLabel(subjects[g]), HeaderLabel(subjects[h]))
    /\ \A i, j \in EntryIndexes(subjects) :
         (i < j /\ SectionAt(subjects, i) = SectionAt(subjects, j)) =>
           /\ LineFrom(subjects[i]) # LineFrom(subjects[j])
           /\ ~LowerLess(LineFrom(subjects[j]), LineFrom(subjects[i]))

\* a written ledger with two sections, one of them with two entries whose
\* order differs between the case-sensitive and the case-insensitive sort
TwoSectionsWritten ==
  /\ last.op = "write"
  /\ last.wrote
  /\ Cardinality(HeaderIndexes(subjects)) = 2
  /\ \E i, j \in EntryIndexes(subjects) :
       /\ i < j
       /\ SectionAt(subjects, i) = SectionAt(subjects, j)
       /\ StrLess(LineFrom(subjects[j]), LineFrom(subjects[i]))

LockFollowsSaves ==
  /\ last.op = "init" => (~clientHasLock /\ lockTimestamp = <<>>)
  /\ (last.op = "save" /\ last.status = 200) =>
       (clientHasLock /\ lockTimestamp = <<now>> /\ last.locked)
  /\ last.op = "release" => (~clientHasLock /\ lockTimestamp = <<>>)

\* a save succeeded while the lock of an earlier save was held
SaveRefreshedLock ==
  /\ last.op = "save"
  /\ last.status = 200
  /\ last.heldBefore
  /\ last.stampBefore # <<>>
  /\ last.stampBefore[1] < now
  /\ now - last.stampBefore[1] <= LOCK_TIMEOUT_MS

\* C9: the lock is advisory: a valid save made while it is held succeeds and
\* the file is what was sent; a read made while it is held returns the file
\* and reports locked; the rewrite of a batch run made while it is held adds
\* the new senders the run proposed.
LockIsAdvisory ==
  /\ (last.op = "save" /\ last.heldBefore /\ ValidType(last.type) /\ last.given # <<>>) =>
       /\ last.status = 200
       /\ (IF last.type = "subjects" THEN subjects ELSE exclusions) = last.given[1]
  /\ (last.op = "read" /\ clientHasLock /\ ValidType(last.type)) =>
       /\ last.status = 200
       /\ last.locked
       /\ last.content = ContentOf(IF last.type = "subjects" THEN subjects ELSE exclusions)
  /\ (last.op = "write" /\ last.heldBefore /\ ~run.raced) =>
       \A c \in run.candidates :
         c[2] \notin Senders(run.startSubjects) \cup Senders(run.startExclusions)
           => c[2] \in Senders(subjects)

\* a save changed a file while the lock was held
SavedWhileLocked ==
  /\ last.op = "save"
  /\ last.heldBefore
  /\ clientHasLock
  /\ last.status = 200
  /\ last.wrote

\* C10: no sender has an entry in subjects.txt and an entry in exclusions.txt,
\* whatever batch runs and saves have happened.
NoSenderInBothFiles ==
  Senders(ReadLines(subjects)) \cap Senders(ReadLines(exclusions)) = {}

\* C11: a save of subjects.txt that lands after the batch run has read both
\* files and built its sections, and before its writeFileSync, is overwritten:
\* the file after the write is the one the sections make, whether the lock
\* the save took is still held or not.
RaceLosesSave ==
  (last.op = "write" /\ last.wrote /\ run.windowSave # <<>>) => subjects = run.merged

\* a rewrite under a held lock lost a sender that a save had put in the file
\* after the sections were built
SavedSenderLost ==
  /\ last.op = "write"
  /\ last.wrote
  /\ last.heldBefore
  /\ run.windowSave # <<>>
  /\ last.subjectsBefore = run.windowSave[1]
  /\ \E name \in Senders(run.windowSave[1]) : name \notin Senders(subjects)

\* C12: a batch run over the message "Invoice #123 due" with the rule
\* {subject: true, contains: "invoice", "add-label": "Receipts"} and Receipts
\* resolving to M1 yields both an add of M1 for that message in the Email/set
\* update and, after the rewrite, a line of the message's sender under
\* ======= Receipts ======= in subjects.txt.
InvoiceYieldsBoth ==
  (last.op = "write" /\ InvoiceMessage.id \in {run.evaluated[k] : k \in DOMAIN run.evaluated})
    => /\ InvoiceMessage.id \in DOMAIN updates
       /\ "M1" \in updates[InvoiceMessage.id].mailboxIds
       /\ <<Receipts, FromName(InvoiceMessage)>> \in LabelledSenders(subjects)

\* the condition keys of a rule, those present, and whether one passes on a text
ConditionKeys == {"empty", "notEmpty", "exact", "notExact", "regex", "contains", "oneOf"}
Present(rule, key) == rule[key] # <<>>
AnyOf(text, list) == \E i \in DOMAIN list : Includes(text, ToLower(list[i]))
Passes(text, rule, key) ==
  CASE key = "empty" -> (rule.empty[1] <=> text = <<>>)
    [] key = "notEmpty" -> (rule.notEmpty[1] <=> text # <<>>)
    [] key = "exact" -> text = ToLower(rule.exact[1])
    [] key = "notExact" -> text # ToLower(rule.notExact[1])
    [] key = "regex" -> Includes(text, ToLower(rule.regex[1]))
    [] key = "contains" -> IF rule.containsIsArray
                             THEN AnyOf(text, rule.contains[1])
                             ELSE Includes(text, ToLower(rule.contains[1]))
    [] key = "oneOf" -> AnyOf(text, rule.oneOf[1])
OnlyKey(rule, key) == \A other \in ConditionKeys : Present(rule, other) <=> other = key

\* C13: when testRule returns, it returns true iff every condition key
\* present on the rule passes; absent keys are ignored, so a rule without
\* conditions matches any text, the empty text too.
AllPresentConditionsPass ==
  (last.op = "test" /\ ~last.threw)
    => (last.matched <=>
          \A key \in ConditionKeys :
            Present(last.rule, key) => Passes(last.text, last.rule, key))

\* a rule was rejected although one of its conditions passed, because another
\* one did not
OnePassedOneFailed ==
  /\ last.op = "test"
  /\ ~last.threw
  /\ ~last.matched
  /\ \E passed, failed \in ConditionKeys :
       /\ Present(last.rule, passed) /\ Passes(last.text, last.rule, passed)
       /\ Present(last.rule, failed) /\ ~Passes(last.text, last.rule, failed)

\* the rule with the list of contains under one-of instead
AsOneOf(rule) ==
  [rule EXCEPT !.contains = <<>>, !.containsIsArray = FALSE, !.oneOf = rule.contains]

\* C14: on every text and every list L, testRule on a rule with contains: L
\* returns what it returns on the same rule with one-of: L, and does not fail.
ContainsListIsOneOf ==
  (/\ last.op = "test"
   /\ Present(last.rule, "contains")
   /\ last.rule.containsIsArray
   /\ ~Present(last.rule, "oneOf"))
    => /\ ~last.threw
       /\ last.matched <=> testRule(last.variant, last.text, AsOneOf(last.rule))

\* C15: exact and not-exact compare the whole composed text, without regard to
\* case: a rule with exact: s alone matches the text t iff lower(t) = lower(s),
\* a rule with not-exact: s alone iff they differ.
ExactIsWholeText ==
  (last.op = "test" /\ ~last.threw)
    => /\ OnlyKey(last.rule, "exact")
            => (last.matched <=> ToLower(last.raw) = ToLower(last.rule.exact[1]))
       /\ OnlyKey(last.rule, "notExact")
            => (last.matched <=> ToLower(last.raw) # ToLower(last.rule.notExact[1]))

\* a text that holds s and more was tested against exact: s and rejected
ExactRejectedSuperstring ==
  /\ last.op = "test"
  /\ OnlyKey(last.rule, "exact")
  /\ Includes(ToLower(last.raw), ToLower(last.rule.exact[1]))
  /\ ToLower(last.raw) # ToLower(last.rule.exact[1])
  /\ ~last.matched

\* the selectors in the order of the composed text, and their values
Selectors == <<"header", "from", "to", "subject", "body">>
IsSet(rule, selector) == IF selector = "header" THEN rule.header # <<>> ELSE rule[selector]
ValueOf(message, rule, selector) ==
  CASE selector = "header" -> HeaderValue(message, rule.header)
    [] selector = "from" -> IF message.from = <<>> THEN <<>> ELSE message.from[1].email
    [] selector = "to" -> Join([i \in DOMAIN message.to |-> message.to[i].email], <<32>>)
    [] selector = "subject" -> message.subject
    [] selector = "body" -> IF message.textBody = <<>> THEN <<>>
                            ELSE PartValue(message, message.textBody[1])
Segments(message, rule) ==
  LET set == SelectSeq(Selectors, LAMBDA selector : IsSet(rule, selector))
  IN [i \in DOMAIN set |-> ToLower(ValueOf(message, rule, set[i]))]

\* C16: getTextString returns the lowercased values of the selectors set on
\* the rule, in the order header, from, to, subject, body, joined by "|", an
\* absent value giving an empty segment, and it does not fail whichever
\* fields of the message are present.
ComposeIsTotal ==
  last.op = "compose"
    => /\ ~last.threw
       /\ last.text = Join(Segments(last.message, last.rule), <<124>>)

\* the rule loop of the last run, read back from its inputs: rule k matches
\* message i; rule k is reached for message i (no earlier matching rule has
\* stop); a label resolves in the mailbox list of the run
MatchesAt(i, k) ==
  testRule(variant, getTextString(run.messages[i], run.ruleList[k]), run.ruleList[k])
ReachedAt(i, k) == \A j \in 1..(k - 1) : ~(MatchesAt(i, j) /\ run.ruleList[j].stop)
Resolves(labelName) ==
  labelName # <<>> /\ mailboxNameToId(run.mailboxes, labelName) # ""
ActsAt(i, k) ==
  /\ ReachedAt(i, k)
  /\ MatchesAt(i, k)
  /\ Resolves(run.ruleList[k].addLabel) \/ Resolves(run.ruleList[k].removeLabel)
NamesOnlyUnresolved(rule) ==
  /\ rule.addLabel # <<>> \/ rule.removeLabel # <<>>
  /\ ~Resolves(rule.addLabel)
  /\ ~Resolves(rule.removeLabel)
Evaluated == DOMAIN run.messages \ Unevaluated

\* C17: the update of Email/set has an entry for a message iff an add or a
\* remove of a mailbox was accumulated for it: a message that matches no
\* rule, or only rules whose labels resolve to no mailbox, has none; and
\* Email/set is sent only when some message has one.
UpdateHoldsActedMessages ==
  last.op = "process"
    => /\ \A i \in DOMAIN run.messages :
            run.messages[i].id \in DOMAIN updates
              <=> (i \in Evaluated /\ \E k \in DOMAIN run.ruleList : ActsAt(i, k))
       /\ last.sent <=> \E i \in Evaluated, k \in DOMAIN run.ruleList : ActsAt(i, k)

\* messageUpdates and messageModified of message i when rule k is tried
DeltaAt(i, k) ==
  RunRules(variant, run.mailboxes, run.messages[i], SubSeq(run.ruleList, 1, k - 1), 1,
           StartOf(run.messages[i],
                   [subjectsByLabel |-> EmptyMap, subjectLinesByLabel |-> EmptyMap,
                    labelOrder |-> <<>>]))
SameDelta(before, after) ==
  /\ after.mailboxIds = before.mailboxIds
  /\ after.keywords = before.keywords
  /\ after.messageModified = before.messageModified

\* C18: the actions of a matching rule whose labels resolve to no mailbox
\* change neither the mailbox ids nor the keywords of the message's update
\* and do not mark the message as modified; the run goes on to its end.
UnresolvedLabelIsNoOp ==
  last.op = "process"
    => \A i \in Evaluated, k \in DOMAIN run.ruleList :
         (ReachedAt(i, k) /\ MatchesAt(i, k) /\ NamesOnlyUnresolved(run.ruleList[k]))
           => SameDelta(DeltaAt(i, k),
                        ApplyRule(variant, run.mailboxes, run.messages[i],
                                  run.ruleList[k], DeltaAt(i, k)))

\* C19: a label name resolves to the mailbox that has exactly that name, and
\* only when there is none to a mailbox whose lower-cased name it is; with
\* mailboxes "foo" and "Foo", in either order, "foo" resolves to "foo".
ExactNameWins ==
  last.op = "resolve"
    => LET named == {i \in DOMAIN last.mailboxes : last.mailboxes[i].name = last.label}
           lowered == {i \in DOMAIN last.mailboxes :
                         ToLower(last.mailboxes[i].name) = last.label}
       IN /\ named # {} => \E i \in named : last.id = last.mailboxes[i].id
          /\ (named = {} /\ lowered # {}) => \E i \in lowered : last.id = last.mailboxes[i].id
          /\ (named = {} /\ lowered = {}) => last.id = ""

\* C20: when a remote call of a run has got a non-success response, the run
\* is over and has not written the ledger: until the next run starts,
\* subjects.txt and exclusions.txt hold what they held when the run started,
\* and the call is not made again.
FailedCallLeavesLedger ==
  run.failed
    => /\ pc = "idle"
       /\ subjects = run.startSubjects
       /\ exclusions = run.startExclusions

\* the fetch of the messages failed in a run of the ledger variant that had
\* loaded a ledger
FetchFailedAfterLoad ==
  /\ last.op = "abort"
  /\ last.call = "Email/get"
  /\ run.failed
  /\ variant = "rewrite"
  /\ run.startSubjects # <<>>

\* the run has come to an end other than a failed call or the ledger rewrite
RunEnded == last.op \in {"nofolder", "empty", "process", "throw"}

\* C21: when no mailbox of the list has the name of the scan folder, compared
\* without regard to case, the run ends before it touches a message: it makes
\* no Email/query, no Email/get and no Email/set, evaluates no message, and
\* leaves both ledger files as they were when it started.
NoScanFolderStopsRun ==
  (/\ RunEnded
   /\ \A i \in DOMAIN last.mailboxes :
        ToLower(last.mailboxes[i].name) # ToLower(rules.scanFolder))
    => /\ last.calls \cap {"Email/query", "Email/get", "Email/set"} = {}
       /\ ~last.sent
       /\ pc = "idle"
       /\ subjects = run.startSubjects
       /\ exclusions = run.startExclusions

\* a run of the ledger variant that had loaded a ledger found no scan folder
ScanFolderMissing ==
  /\ last.op = "nofolder"
  /\ variant = "rewrite"
  /\ run.startSubjects # <<>>
  /\ last.calls = {"Mailbox/get"}
  /\ last.mailboxes # <<>>

\* the lock had timed out when the last request came in
TimedOutBefore ==
  /\ last.heldBefore
  /\ last.stampBefore # <<>>
  /\ now - last.stampBefore[1] > LOCK_TIMEOUT_MS

\* C22: a save whose type is missing or is not subjects or exclusions, or
\* whose content is missing, is answered with 400, writes neither file, does
\* not make the lock held and gives it no new timestamp (the timestamp stays,
\* or is cleared with the lock when the lock had timed out).
InvalidSaveIsRefused ==
  (last.op = "save" /\ (last.type \notin {"subjects", "exclusions"} \/ last.given = <<>>))
    => /\ last.status = 400
       /\ ~last.wrote
       /\ subjects = last.subjectsBefore
       /\ exclusions = last.exclusionsBefore
       /\ clientHasLock => last.heldBefore
       /\ lockTimestamp = IF TimedOutBefore THEN <<>> ELSE last.stampBefore

\* a save of the type "rules" with a content was refused while the lock was
\* held, and the lock is as it was
SaveOfOtherTypeRefused ==
  /\ last.op = "save"
  /\ last.type = "rules"
  /\ last.given # <<>>
  /\ last.status = 400
  /\ last.heldBefore
  /\ clientHasLock
  /\ lockTimestamp = last.stampBefore
  /\ now > lockTimestamp[1]

\* a status check or a data read that found the lock held
CheckedWhileHeld ==
  /\ last.op \in {"status", "read"}
  /\ last.heldBefore
  /\ last.stampBefore # <<>>

CandidateAt(i, k) ==
  /\ i \in Evaluated
  /\ ReachedAt(i, k)
  /\ MatchesAt(i, k)
  /\ Resolves(run.ruleList[k].addLabel)
  /\ run.messages[i].subject # <<>>
Observations ==
  {ik \in (DOMAIN run.messages) \X (DOMAIN run.ruleList) : CandidateAt(ik[1], ik[2])}
SenderAt(ik) == FromName(run.messages[ik[1]])
LabelAt(ik) == run.ruleList[ik[2]].addLabel
Earlier(ik, jl) == ik[1] < jl[1] \/ (ik[1] = jl[1] /\ ik[2] < jl[2])
KnownAtStart == Senders(run.startSubjects) \cup Senders(run.startExclusions)

\* C24: when a run observes a sender that was in neither file as a candidate
\* under two labels, the rewritten subjects.txt has the sender under the
\* label of the candidate observed first (message order, then rule order)
\* and not under the label of the later one.
FirstCandidateWins ==
  (last.op = "write" /\ last.wrote)
    => \A first, later \in Observations :
         (/\ SenderAt(first) = SenderAt(later)
          /\ SenderAt(first) \notin KnownAtStart
          /\ LabelAt(first) # LabelAt(later)
          /\ \A other \in Observations :
               SenderAt(other) = SenderAt(first) /\ other # first => Earlier(first, other))
           => /\ <<LabelAt(first), SenderAt(first)>> \in LabelledSenders(subjects)
              /\ <<LabelAt(later), SenderAt(later)>> \notin LabelledSenders(subjects)

\* C25: in the append variant, a run that observes a sender as a candidate
\* under a label that had a section in subjects.txt when the run started, the
\* sender not being in that section, completes normally and the sender has
\* an entry under that label in subjects.txt afterwards.
AppendRecordsNewSender ==
  (variant = "append" /\ last.op \in {"process", "throw"})
    => \A ik \in Observations :
         (/\ LabelAt(ik) \in HeaderLabels(run.startSubjects)
          /\ <<LabelAt(ik), SenderAt(ik)>> \notin LabelledSenders(run.startSubjects))
           => /\ last.op = "process"
              /\ <<LabelAt(ik), SenderAt(ik)>> \in LabelledSenders(subjects)

\* the <<label, line>> pairs of a file
LabelledLines(file) ==
  {<<HeaderLabel(file[SectionAt(file, i)]), file[i]>> :
     i \in {e \in EntryIndexes(file) : SectionAt(file, e) # 0}}

\* a well-formed entry of a ledger file: an entry line in the section of a
\* label with a name, the only line of its sender in the sections of that label
WellFormedEntry(file, i) ==
  /\ i \in EntryIndexes(file)
  /\ SectionAt(file, i) # 0
  /\ HeaderLabel(file[SectionAt(file, i)]) # <<>>
  /\ \A j \in EntryIndexes(file) \ {i} :
       (/\ SectionAt(file, j) # 0
        /\ HeaderLabel(file[SectionAt(file, j)]) = HeaderLabel(file[SectionAt(file, i)]))
         => LineFrom(file[j]) # LineFrom(file[i])
WellFormedEntries(file) == {i \in DOMAIN file : WellFormedEntry(file, i)}

\* C26: from the start of a run of the ledger variant on, whatever the run
\* observes and however it ends, every well-formed entry that subjects.txt
\* had when the run started is in subjects.txt as the same line under the
\* same label.
EntriesAreKept ==
  \A i \in WellFormedEntries(run.startSubjects) :
    <<HeaderLabel(run.startSubjects[SectionAt(run.startSubjects, i)]),
      run.startSubjects[i]>> \in LabelledLines(subjects)

\* a run rewrote subjects.txt, which had a well-formed entry, to a different content
EntryKeptByRewrite ==
  /\ last.op = "write"
  /\ last.wrote
  /\ subjects # run.startSubjects
  /\ WellFormedEntries(run.startSubjects) # {}

\* C27: from the start of a batch run on, whichever variant runs and however
\* the run ends (no scan folder, no message, a throw, a failed call, the
\* rewrite of subjects.txt), exclusions.txt has the content it had when the
\* run started.
ExclusionsAreOnlyRead ==
  last.op # "init" => exclusions = run.startExclusions

\* a run rewrote subjects.txt to a different content while exclusions.txt had entries
RewroteBesideExclusions ==
  /\ last.op = "write"
  /\ last.wrote
  /\ subjects # run.startSubjects
  /\ Senders(run.startExclusions) # {}

\* C28: when a run has rewritten subjects.txt, every label that has a header
\* in the file and had none when the run started has an entry under it: a
\* label whose candidates were all skipped as known senders gets no header.
NoHeaderWithoutEntry ==
  (last.op = "write" /\ last.wrote)
    => \A label \in HeaderLabels(subjects) \ HeaderLabels(run.startSubjects) :
         \E pair \in LabelledSenders(subjects) : pair[1] = label

\* C29: GET /api/data and GET /api/lock-status never make the lock held; when
\* the lock had not timed out they leave the flag and the timestamp as they
\* were (the timestamp is not renewed); and they leave both ledger files as
\* they were.
ReadsOnlyExpire ==
  last.op \in {"read", "status"}
    => /\ clientHasLock => last.heldBefore
       /\ ~TimedOutBefore
            => (clientHasLock = last.heldBefore /\ lockTimestamp = last.stampBefore)
       /\ subjects = last.subjectsBefore
       /\ exclusions = last.exclusionsBefore

\* a data read some time after a save, the lock still held with the
\* timestamp of the save
ReadLeftLockAsItWas ==
  /\ last.op = "read"
  /\ last.status = 200
  /\ last.heldBefore
  /\ clientHasLock
  /\ lockTimestamp # <<>>
  /\ now > lockTimestamp[1]

\* C30: in every state of the host, the lock is held iff it has a timestamp.
LockFlagMatchesStamp == clientHasLock <=> lockTimestamp # <<>>

\* a refused save found the lock timed out: flag and timestamp are cleared together
RefusedSaveExpiredLock ==
  /\ last.op = "save"
  /\ last.status = 400
  /\ TimedOutBefore
  /\ ~clientHasLock
  /\ lockTimestamp = <<>>

====
